---------------------------- MODULE Spec2Model ----------------------------
(***************************************************************************)
(* Maze solver: a binary raster is sampled into vertices, 4-connected      *)
(* adjacency is recorded, degree-2 vertices are collapsed, two boundary    *)
(* vertices become start/end, and three search strategies (breadth-first,  *)
(* depth-first, weighted shortest-path) are run on the resulting graph.    *)
(*                                                                         *)
(* Conventions of the translation:                                         *)
(*  - a Vec is a sequence, so vertex index i of the source is i + 1 here;  *)
(*    Option<usize>::None is 0 (no vertex has index 0 in the model);       *)
(*  - a position is <<x, y>>; an edge is <<target index, weight>>;         *)
(*  - f32 weights are sums of 1.0 and stay far below 2^24, where f32       *)
(*    addition and comparison of integers are exact, so they are naturals; *)
(*  - a pixel is its red channel (the only channel create_vertices reads). *)
(***************************************************************************)
EXTENDS Naturals, Sequences, FiniteSets

\* Largest raster area (width * height) explored.
MaxCells == 12

\* Largest raster width and height explored.
MaxSide == 4

\* Red-channel values explored: 0 is a wall, anything else is open.
PixelValues == {0, 255}

VARIABLES
    width,       \* img.width()
    height,      \* img.height()
    img,         \* the decoded raster: <<x, y>> -> red channel
    pc,          \* position in from_png / the solver loop
    vertices,    \* Vec<Vertex<Coord>>: sequence of [pos, neighbors]
    start,       \* Graph.start (1-based; 0 before the graph exists)
    end,         \* Graph.end
    i,           \* reduce_vertex_count: the loop index (1-based)
    solver,      \* index into the solvers array of the strategy being run
    frontier,    \* dfs: stack (top is last); bfs: queue (front is first)
    heap,        \* dijkstra: BinaryHeap<State> as a set of [cost, position]
    visited,     \* dfs, bfs: Vec<bool>
    dists,       \* dijkstra: Vec<f32>
    parent_map,  \* Vec<Option<usize>>
    path,        \* reconstruct_path: the path being collected (end first)
    current,     \* reconstruct_path: the vertex whose parent is read next
    results      \* what solve_graph returned for each strategy run so far

vars == <<width, height, img, pc, vertices, start, end, i, solver, frontier,
          heap, visited, dists, parent_map, path, current, results>>

---------------------------------------------------------------------------
\* Helpers on sequences and sets.

Min(S) == CHOOSE m \in S : \A k \in S : m <= k

Reverse(s) == [k \in 1..Len(s) |-> s[Len(s) + 1 - k]]

---------------------------------------------------------------------------
\* graph.rs

\* Coord::potential_neighbors: up, down, left, right, dropping underflows
\* (checked_add never overflows for the coordinates explored).
potential_neighbors(pos) ==
    LET x == pos[1]
        y == pos[2]
    IN  (IF y >= 1 THEN << <<x, y - 1>> >> ELSE << >>)
        \o << <<x, y + 1>> >>
        \o (IF x >= 1 THEN << <<x - 1, y>> >> ELSE << >>)
        \o << <<x + 1, y>> >>

\* enumerate_pixels: the k-th pixel (k from 0) in row-major order.
PixelAt(w, k) == <<k % w, k \div w>>

RECURSIVE create_vertices_from(_, _, _, _)
create_vertices_from(image, w, h, k) ==
    IF k >= w * h THEN << >>
    ELSE LET p == PixelAt(w, k)
         IN  (IF image[p] # 0
                 THEN << [pos |-> p, neighbors |-> << >>] >>
                 ELSE << >>)
             \o create_vertices_from(image, w, h, k + 1)

\* create_vertices: one vertex per pixel whose red channel is non-zero.
create_vertices(image, w, h) == create_vertices_from(image, w, h, 0)

\* A position -> index map over the vertex list (0: absent).
PosToIdx(vs, pos) ==
    LET hits == {v \in 1..Len(vs) : vs[v].pos = pos}
    IN  IF hits = {} THEN 0 ELSE CHOOSE v \in hits : TRUE

\* populate_vertex_neighbors: the hard-coded edge weight.
weight == 1

RECURSIVE NeighborEdges(_, _)
NeighborEdges(vs, cands) ==
    IF cands = << >> THEN << >>
    ELSE LET idx == PosToIdx(vs, Head(cands))
         IN  (IF idx # 0 THEN << <<idx, weight>> >> ELSE << >>)
             \o NeighborEdges(vs, Tail(cands))

populate_vertex_neighbors(vs) ==
    [v \in 1..Len(vs) |->
        [vs[v] EXCEPT !.neighbors =
            @ \o NeighborEdges(vs, potential_neighbors(vs[v].pos))]]

\* The new edge pushed beside the edge pointing at n, which is left in place.
PushEdge(nbrs, n, e) ==
    IF \E k \in 1..Len(nbrs) : nbrs[k][1] = n THEN Append(nbrs, e) ELSE nbrs

\* iter_mut().find(|(idx, _)| *idx == i) followed by *edge = e: the first
\* edge pointing at n is overwritten, if there is one.
ReplaceEdge(nbrs, n, e) ==
    LET hits == {k \in 1..Len(nbrs) : nbrs[k][1] = n}
    IN  IF hits = {} THEN nbrs ELSE [nbrs EXCEPT ![Min(hits)] = e]

\* The weight written on vertex b's edge (graph.rs:255).
WeightOnB(weight_a, weight_b) == weight_b + weight_b

\* The collapsed vertex's list after the collapse (graph.rs:258).
ClearedNeighbors(nbrs) == << >>

\* The body of the loop of reduce_vertex_count for index n.
ReduceStep(vs, n) ==
    IF Len(vs[n].neighbors) = 2
    THEN LET idx_a    == vs[n].neighbors[1][1]
             weight_a == vs[n].neighbors[1][2]
             idx_b    == vs[n].neighbors[2][1]
             weight_b == vs[n].neighbors[2][2]
             vs1 == [vs EXCEPT ![idx_a].neighbors =
                        ReplaceEdge(@, n, <<idx_b, weight_a + weight_b>>)]
             vs2 == [vs1 EXCEPT ![idx_b].neighbors =
                        ReplaceEdge(@, n, <<idx_a, WeightOnB(weight_a, weight_b)>>)]
         IN  [vs2 EXCEPT ![n].neighbors = ClearedNeighbors(@)]
    ELSE vs

RECURSIVE reduce_from(_, _)
reduce_from(vs, n) ==
    IF n > Len(vs) THEN vs ELSE reduce_from(ReduceStep(vs, n), n + 1)

\* reduce_vertex_count: one forward sweep over all indices.
reduce_vertex_count(vs) == reduce_from(vs, 1)

\* find_boundary_vertices: top and bottom cell of every column, then left
\* and right cell of every interior row, each pushed when it is a vertex.
Hit(vs, pos) ==
    LET idx == PosToIdx(vs, pos) IN IF idx # 0 THEN << idx >> ELSE << >>

RECURSIVE BoundaryColumns(_, _, _, _)
BoundaryColumns(vs, w, h, x) ==
    IF x >= w THEN << >>
    ELSE Hit(vs, <<x, 0>>) \o Hit(vs, <<x, h - 1>>)
         \o BoundaryColumns(vs, w, h, x + 1)

RECURSIVE BoundaryRows(_, _, _, _)
BoundaryRows(vs, w, h, y) ==
    IF y >= h - 1 THEN << >>
    ELSE Hit(vs, <<0, y>>) \o Hit(vs, <<w - 1, y>>)
         \o BoundaryRows(vs, w, h, y + 1)

find_boundary_vertices(vs, w, h) ==
    BoundaryColumns(vs, w, h, 0) \o BoundaryRows(vs, w, h, 1)

---------------------------------------------------------------------------
\* State machine: Graph::from_png

Cells(w, h) == (0..(w - 1)) \X (0..(h - 1))

Solvers == <<"BreadthFirst", "DepthFirst", "Dijkstra">>

Pending == [tag |-> "Pending", path |-> << >>]
None    == [tag |-> "None", path |-> << >>]
Some(p) == [tag |-> "Some", path |-> p]

\* Before from_png has read the file there is no raster and no graph.
Init ==
    /\ width = 0
    /\ height = 0
    /\ img = << >>
    /\ pc = "decode"
    /\ vertices = << >>
    /\ start = 0
    /\ end = 0
    /\ i = 0
    /\ solver = 0
    /\ frontier = << >>
    /\ heap = {}
    /\ visited = << >>
    /\ dists = << >>
    /\ parent_map = << >>
    /\ path = << >>
    /\ current = 0
    /\ results = [k \in 1..Len(Solvers) |-> Pending]

Scratch == <<i, frontier, heap, visited, dists, parent_map, path, current>>
Raster == <<width, height, img>>

Graph == <<vertices, start, end>>

\* ImageReader::open(path)?.decode()?.into_rgb8(): the file decodes to some
\* raster of at least one pixel, or from_png returns the decoder's error.
DecodeImage ==
    /\ pc = "decode"
    /\ \E w \in 1..MaxSide, h \in 1..MaxSide :
          /\ w * h <= MaxCells
          /\ width' = w
          /\ height' = h
          /\ img' \in [Cells(w, h) -> PixelValues]
    /\ pc' = "create"
    /\ UNCHANGED <<Graph, solver, Scratch, results>>

DecodeFails ==
    /\ pc = "decode"
    /\ pc' = "error"
    /\ UNCHANGED <<Raster, Graph, solver, Scratch, results>>

CreateVertices ==
    /\ pc = "create"
    /\ vertices' = create_vertices(img, width, height)
    /\ pc' = "populate"
    /\ UNCHANGED <<Raster, start, end, solver, Scratch, results>>

PopulateVertexNeighbors ==
    /\ pc = "populate"
    /\ vertices' = populate_vertex_neighbors(vertices)
    /\ pc' = "reduce"
    /\ i' = 1
    /\ UNCHANGED <<Raster, start, end, solver, frontier, heap, visited, dists,
                   parent_map, path, current, results>>

\* One iteration of the loop of reduce_vertex_count.
ReduceIteration ==
    /\ pc = "reduce"
    /\ i <= Len(vertices)
    /\ vertices' = ReduceStep(vertices, i)
    /\ i' = i + 1
    /\ UNCHANGED <<Raster, pc, start, end, solver, frontier, heap, visited, dists,
                   parent_map, path, current, results>>

\* The loop of reduce_vertex_count has passed the last index.
ReduceDone ==
    /\ pc = "reduce"
    /\ i > Len(vertices)
    /\ pc' = "boundary"
    /\ i' = 0
    /\ UNCHANGED <<Raster, Graph, solver, frontier, heap, visited, dists,
                   parent_map, path, current, results>>

\* The rest of from_png: boundary_vertices[0] and [1] are indexed without a
\* length check, so fewer than two boundary vertices is a panic.
SelectEndpoints ==
    /\ pc = "boundary"
    /\ LET boundary_vertices == find_boundary_vertices(vertices, width, height)
       IN  IF Len(boundary_vertices) < 2
           THEN /\ pc' = "panic"
                /\ UNCHANGED <<start, end>>
           ELSE /\ pc' = "solve"
                /\ start' = boundary_vertices[1]
                /\ end' = boundary_vertices[2]
    /\ UNCHANGED <<Raster, vertices, solver, Scratch, results>>

---------------------------------------------------------------------------
\* pathfinding.rs

NoParents == [v \in 1..Len(vertices) |-> 0]
NoneVisited == [v \in 1..Len(vertices) |-> FALSE]

\* f32::MAX, the initial distance: stands above every distance reachable.
F32_MAX == 2147483647

\* The solver loop of main (main.rs:25-33) hands the graph to each strategy in
\* turn; solve_graph dispatches on the strategy.  The Option is recorded as
\* returned, so a strategy's None can be compared with the other strategies'.
Strategy == IF solver < Len(Solvers) THEN Solvers[solver + 1] ELSE "none"

\* bfs, up to the loop: the start is queued and marked visited.
StartBfs ==
    /\ pc = "solve"
    /\ Strategy = "BreadthFirst"
    /\ solver' = solver + 1
    /\ frontier' = << start >>
    /\ visited' = [NoneVisited EXCEPT ![start] = TRUE]
    /\ parent_map' = NoParents
    /\ pc' = "bfs"
    /\ UNCHANGED <<Raster, Graph, i, heap, dists, path, current, results>>

\* dfs_iterative, up to the loop: the start is pushed, nothing is visited.
StartDfs ==
    /\ pc = "solve"
    /\ Strategy = "DepthFirst"
    /\ solver' = solver + 1
    /\ frontier' = << start >>
    /\ visited' = NoneVisited
    /\ parent_map' = NoParents
    /\ pc' = "dfs"
    /\ UNCHANGED <<Raster, Graph, i, heap, dists, path, current, results>>

\* dijkstra, up to the loop.
StartDijkstra ==
    /\ pc = "solve"
    /\ Strategy = "Dijkstra"
    /\ solver' = solver + 1
    /\ dists' = [[v \in 1..Len(vertices) |-> F32_MAX] EXCEPT ![start] = 0]
    /\ parent_map' = NoParents
    /\ heap' = {[cost |-> 0, position |-> start]}
    /\ pc' = "dijkstra"
    /\ UNCHANGED <<Raster, Graph, i, frontier, visited, path, current, results>>

\* A strategy returns r: its scratch state is dropped and the loop of main
\* moves on.
Return(r) ==
    /\ results' = [results EXCEPT ![solver] = r]
    /\ pc' = IF solver = Len(Solvers) THEN "done" ELSE "solve"
    /\ frontier' = << >>
    /\ heap' = {}
    /\ visited' = << >>
    /\ dists' = << >>
    /\ parent_map' = << >>
    /\ path' = << >>
    /\ current' = 0
    /\ UNCHANGED <<Raster, Graph, i, solver>>

\* reconstruct_path is entered with path = vec![target], current = target.
EnterReconstruct ==
    /\ pc' = "reconstruct"
    /\ path' = << end >>
    /\ current' = end

\* ---- dfs_iterative

\* The neighbor loop without its visited test.
AlwaysUnvisited(vis, neighbor) == TRUE

\* Whether the loop records and pushes a neighbor (pathfinding.rs:65).
Unvisited(vis, neighbor) == ~vis[neighbor]

\* The for loop over the neighbors of cur: st is [parent_map, stack].
RECURSIVE dfs_neighbors(_, _, _, _)
dfs_neighbors(st, vis, cur, nbrs) ==
    IF nbrs = << >> THEN st
    ELSE LET neighbor == Head(nbrs)[1]
         IN  dfs_neighbors(
                 IF Unvisited(vis, neighbor)
                     THEN [parent_map |-> [st.parent_map EXCEPT ![neighbor] = cur],
                           stack |-> Append(st.stack, neighbor)]
                     ELSE st,
                 vis, cur, Tail(nbrs))

\* visited after cur was popped unvisited (pathfinding.rs:62).
DfsMark(vis, cur) == [vis EXCEPT ![cur] = TRUE]

\* One iteration of the while loop of dfs_iterative with a non-empty stack.
DfsStep ==
    /\ pc = "dfs"
    /\ frontier # << >>
    /\ LET cur == frontier[Len(frontier)]
           popped == SubSeq(frontier, 1, Len(frontier) - 1)
       IN  IF cur = end
           THEN /\ EnterReconstruct
                /\ frontier' = popped
                /\ UNCHANGED <<visited, parent_map>>
           ELSE IF ~visited[cur]
           THEN LET vis == DfsMark(visited, cur)
                    st == dfs_neighbors([parent_map |-> parent_map, stack |-> popped],
                                        vis, cur, vertices[cur].neighbors)
                IN  /\ visited' = vis
                    /\ parent_map' = st.parent_map
                    /\ frontier' = st.stack
                    /\ UNCHANGED <<pc, path, current>>
           ELSE /\ frontier' = popped
                /\ UNCHANGED <<pc, path, current, visited, parent_map>>
    /\ UNCHANGED <<Raster, Graph, i, solver, heap, dists, results>>

\* The stack is empty: the loop ends and dfs_iterative returns None.
DfsExhausted ==
    /\ pc = "dfs"
    /\ frontier = << >>
    /\ Return(None)

\* ---- bfs

\* graph.start recorded as every discovered vertex's parent.
BfsParentIsStart(cur) == start

\* The parent recorded for a newly discovered neighbor (pathfinding.rs:92).
BfsParent(cur) == cur

\* The for loop over the neighbors of cur: st is [visited, parent_map, queue].
RECURSIVE bfs_neighbors(_, _, _)
bfs_neighbors(st, cur, nbrs) ==
    IF nbrs = << >> THEN st
    ELSE LET neighbor_idx == Head(nbrs)[1]
         IN  bfs_neighbors(
                 IF ~st.visited[neighbor_idx]
                     THEN [visited |-> [st.visited EXCEPT ![neighbor_idx] = TRUE],
                           parent_map |-> [st.parent_map EXCEPT
                                              ![neighbor_idx] = BfsParent(cur)],
                           queue |-> Append(st.queue, neighbor_idx)]
                     ELSE st,
                 cur, Tail(nbrs))

\* queue.pop_back() in place of pop_front().
PopBackIndex(q) == Len(q)

\* queue.pop_front(): the index of the element taken from a non-empty queue.
PopFrontIndex(q) == 1

\* One iteration of the while loop of bfs with a non-empty queue.
BfsStep ==
    /\ pc = "bfs"
    /\ frontier # << >>
    /\ LET k == PopFrontIndex(frontier)
           cur == frontier[k]
           popped == SubSeq(frontier, 1, k - 1) \o SubSeq(frontier, k + 1, Len(frontier))
       IN  IF cur = end
           THEN /\ EnterReconstruct
                /\ frontier' = popped
                /\ UNCHANGED <<visited, parent_map>>
           ELSE LET st == bfs_neighbors([visited |-> visited, parent_map |-> parent_map,
                                         queue |-> popped],
                                        cur, vertices[cur].neighbors)
                IN  /\ visited' = st.visited
                    /\ parent_map' = st.parent_map
                    /\ frontier' = st.queue
                    /\ UNCHANGED <<pc, path, current>>
    /\ UNCHANGED <<Raster, Graph, i, solver, heap, dists, results>>

BfsExhausted ==
    /\ pc = "bfs"
    /\ frontier = << >>
    /\ Return(None)

\* ---- dijkstra

\* State::cmp comparing self.cost with other.cost: a max-heap on cost.
StateGeByCost(s, t) == s.cost >= t.cost

\* State::cmp compares other.cost with self.cost, so the heap's greatest
\* element has the least cost: s is at least t in that order.
StateGe(s, t) == t.cost >= s.cost

\* What heap.pop() may return: a greatest element.  The order does not tell
\* states of equal cost apart and which of them the heap yields depends on its
\* layout, so any of them may be popped.
HeapTop(h) == {s \in h : \A t \in h : StateGe(s, t)}

\* The stale-entry test with >= for >: entries at the best distance are
\* skipped too.
StaleOrEqual(cost, dist) == cost >= dist

\* The stale-entry test (pathfinding.rs:116).
Stale(cost, dist) == cost > dist

\* The relaxation test (pathfinding.rs:122).
Relaxes(next_dist, dist) == next_dist < dist

\* The for loop over the neighbors of position: st is [dists, parent_map, heap].
RECURSIVE dijkstra_neighbors(_, _, _, _)
dijkstra_neighbors(st, cost, position, nbrs) ==
    IF nbrs = << >> THEN st
    ELSE LET neighbor_idx == Head(nbrs)[1]
             next_dist == cost + Head(nbrs)[2]
         IN  dijkstra_neighbors(
                 IF Relaxes(next_dist, st.dists[neighbor_idx])
                     THEN [dists |-> [st.dists EXCEPT ![neighbor_idx] = next_dist],
                           parent_map |-> [st.parent_map EXCEPT
                                              ![neighbor_idx] = position],
                           heap |-> st.heap \cup
                                      {[cost |-> next_dist, position |-> neighbor_idx]}]
                     ELSE st,
                 cost, position, Tail(nbrs))

\* One iteration of the while loop of dijkstra with a non-empty heap.
DijkstraStep ==
    /\ pc = "dijkstra"
    /\ heap # {}
    /\ \E top \in HeapTop(heap) :
          LET popped == heap \ {top}
          IN  IF top.position = end
              THEN /\ EnterReconstruct
                   /\ heap' = popped
                   /\ UNCHANGED <<dists, parent_map>>
              ELSE IF Stale(top.cost, dists[top.position])
              THEN /\ heap' = popped
                   /\ UNCHANGED <<pc, path, current, dists, parent_map>>
              ELSE LET st == dijkstra_neighbors(
                                 [dists |-> dists, parent_map |-> parent_map,
                                  heap |-> popped],
                                 top.cost, top.position,
                                 vertices[top.position].neighbors)
                   IN  /\ dists' = st.dists
                       /\ parent_map' = st.parent_map
                       /\ heap' = st.heap
                       /\ UNCHANGED <<pc, path, current>>
    /\ UNCHANGED <<Raster, Graph, i, solver, frontier, visited, results>>

DijkstraExhausted ==
    /\ pc = "dijkstra"
    /\ heap = {}
    /\ Return(None)

\* ---- reconstruct_path

\* One iteration of the while-let loop: the parent is pushed and followed.
\* A parent map with a cycle would keep the loop running for ever; the model
\* stops following once the path is longer than the vertex list.
ReconstructStep ==
    /\ pc = "reconstruct"
    /\ parent_map[current] # 0
    /\ Len(path) <= Len(vertices)
    /\ path' = Append(path, parent_map[current])
    /\ current' = parent_map[current]
    /\ UNCHANGED <<Raster, Graph, i, solver, pc, frontier, heap,
                   visited, dists, parent_map, results>>

\* reconstruct_path without its path.reverse().
NotReversed(p) == p

\* What reconstruct_path returns from the collected path (pathfinding.rs:29).
Reversed(p) == Reverse(p)

\* The loop ends on a vertex without parent; the strategy returns the path.
ReconstructDone ==
    /\ pc = "reconstruct"
    /\ parent_map[current] = 0
    /\ Return(Some(Reversed(path)))

Next ==
    \/ DecodeImage
    \/ DecodeFails
    \/ CreateVertices
    \/ PopulateVertexNeighbors
    \/ ReduceIteration
    \/ ReduceDone
    \/ SelectEndpoints
    \/ StartBfs
    \/ BfsStep
    \/ BfsExhausted
    \/ StartDfs
    \/ DfsStep
    \/ DfsExhausted
    \/ StartDijkstra
    \/ DijkstraStep
    \/ DijkstraExhausted
    \/ ReconstructStep
    \/ ReconstructDone

Spec == Init /\ [][Next]_vars

---------------------------------------------------------------------------
\* calculate_cost: the weight of the first stored edge from each path vertex
\* to the next is added; a pair without a stored edge adds nothing.
EdgeWeight(vs, cur, next) ==
    LET nbrs == vs[cur].neighbors
        hits == {k \in 1..Len(nbrs) : nbrs[k][1] = next}
    IN  IF hits = {} THEN 0 ELSE nbrs[Min(hits)][2]

RECURSIVE cost_from(_, _, _)
cost_from(vs, solution, v) ==
    IF v >= Len(solution) THEN 0
    ELSE EdgeWeight(vs, solution[v], solution[v + 1]) + cost_from(vs, solution, v + 1)

calculate_cost(vs, solution) == cost_from(vs, solution, 1)

---------------------------------------------------------------------------
\* Graph-theoretic notions the properties are stated with.

SolverIndex(name) == CHOOSE k \in 1..Len(Solvers) : Solvers[k] = name
BreadthFirst == SolverIndex("BreadthFirst")
DepthFirst == SolverIndex("DepthFirst")
Dijkstra == SolverIndex("Dijkstra")

Returned(k) == results[k].tag # "Pending"
Found(k) == results[k].tag = "Some"

\* u has a stored edge to v.
HasEdge(vs, u, v) == \E k \in 1..Len(vs[u].neighbors) : vs[u].neighbors[k][1] = v

Successors(vs, S) == {v \in 1..Len(vs) : \E u \in S : HasEdge(vs, u, v)}

\* The vertices reachable from the set S along stored edges.
RECURSIVE ReachableFrom(_, _)
ReachableFrom(vs, S) ==
    LET T == S \cup Successors(vs, S)
    IN  IF T = S THEN S ELSE ReachableFrom(vs, T)

Reachable(vs, s, t) == t \in ReachableFrom(vs, {s})

\* The least number of edges of a path from the set S (at distance d) to t,
\* for t reachable from S.
RECURSIVE EdgeDistance(_, _, _, _)
EdgeDistance(vs, S, t, d) ==
    IF t \in S THEN d ELSE EdgeDistance(vs, S \cup Successors(vs, S), t, d + 1)

\* Every stored edge as <<source, target, weight>>.
EdgeSet(vs) ==
    UNION {{<<u, vs[u].neighbors[k][1], vs[u].neighbors[k][2]>> :
               k \in 1..Len(vs[u].neighbors)} : u \in 1..Len(vs)}

\* The least total weight of a path from s to each vertex (Unreached when
\* there is none), by rounds of relaxation over every stored edge.
Unreached == F32_MAX

RelaxAll(vs, d) ==
    [v \in 1..Len(vs) |->
        Min({d[v]} \cup {d[e[1]] + e[3] :
                            e \in {f \in EdgeSet(vs) : f[2] = v /\ d[f[1]] # Unreached}})]

RECURSIVE RelaxToFixpoint(_, _)
RelaxToFixpoint(vs, d) ==
    LET d2 == RelaxAll(vs, d)
    IN  IF d2 = d THEN d ELSE RelaxToFixpoint(vs, d2)

LeastCost(vs, s, t) ==
    RelaxToFixpoint(vs, [v \in 1..Len(vs) |-> IF v = s THEN 0 ELSE Unreached])[t]

\* The edges of a path are stored edges.
FollowsEdges(vs, p) == \A v \in 1..(Len(p) - 1) : HasEdge(vs, p[v], p[v + 1])


---------------------------------------------------------------------------
\* Properties

\* C1: whenever a strategy returns a path, the path's first element is
\* graph.start and its last element is graph.end.
C1_PathFromStartToEnd ==
    \A k \in 1..Len(Solvers) :
        Found(k) => /\ results[k].path # << >>
                    /\ results[k].path[1] = start
                    /\ results[k].path[Len(results[k].path)] = end

\* C1 witness: every strategy has returned a path of several vertices between
\* distinct endpoints.
C1_Witness ==
    /\ pc = "done"
    /\ start # end
    /\ \A k \in 1..Len(Solvers) : Found(k) /\ Len(results[k].path) >= 3

C3_BfsFewestEdges ==
    Found(BreadthFirst) =>
        /\ FollowsEdges(vertices, results[BreadthFirst].path)
        /\ Len(results[BreadthFirst].path) - 1 = EdgeDistance(vertices, {start}, end, 0)
        /\ Found(DepthFirst) =>
              Len(results[BreadthFirst].path) <= Len(results[DepthFirst].path)

\* C3 witness: dfs_iterative returned a strictly longer path than bfs.
C3_Witness ==
    /\ Found(BreadthFirst)
    /\ Found(DepthFirst)
    /\ Len(results[BreadthFirst].path) >= 2
    /\ Len(results[BreadthFirst].path) < Len(results[DepthFirst].path)

\* C4: each strategy returns a path exactly when graph.end is reachable from
\* graph.start along stored edges, and None otherwise.
C4_FoundIffReachable ==
    \A k \in 1..Len(Solvers) :
        Returned(k) => (Found(k) <=> Reachable(vertices, start, end))

\* C4 witness: the start has edges, the end cannot be reached, and every
\* strategy returned None.
C4_Witness ==
    /\ pc = "done"
    /\ vertices[start].neighbors # << >>
    /\ ~Reachable(vertices, start, end)
    /\ \A k \in 1..Len(Solvers) : results[k] = None

\* The graph before reduction: what create_vertices and
\* populate_vertex_neighbors build from the raster.
Unreduced == populate_vertex_neighbors(create_vertices(img, width, height))

\* C5: with start and end the first two boundary vertices, a start-to-end
\* path exists in the reduced graph exactly when one exists in the unreduced
\* graph, and the least total weight of such a path is the same in both.
C5_ReductionKeepsLeastCost ==
    (pc = "solve" /\ solver = 0) =>
        /\ Reachable(vertices, start, end) <=> Reachable(Unreduced, start, end)
        /\ Reachable(Unreduced, start, end) =>
              LeastCost(vertices, start, end) = LeastCost(Unreduced, start, end)

\* The open cells, in row-major order, form one straight line of n adjacent
\* cells.
OpenCells == {c \in Cells(width, height) : img[c] # 0}

Decoded == pc \notin {"decode", "error"}

StraightCorridor(n) ==
    /\ Cardinality(OpenCells) = n
    /\ \E c \in OpenCells :
          \/ OpenCells = {<<c[1] + d, c[2]>> : d \in 0..(n - 1)}
          \/ OpenCells = {<<c[1], c[2] + d>> : d \in 0..(n - 1)}

\* C6: for a raster whose open cells are one straight corridor of n >= 2
\* cells, after populate_vertex_neighbors and reduce_vertex_count only the two
\* endpoints have neighbors: one edge each, to the other endpoint, of weight
\* n - 1.
C6_CorridorCollapses ==
    \A n \in 2..MaxCells :
        (pc = "boundary" /\ StraightCorridor(n)) =>
            /\ vertices[1].neighbors = << <<n, n - 1>> >>
            /\ vertices[n].neighbors = << <<1, n - 1>> >>
            /\ \A v \in 2..(n - 1) : vertices[v].neighbors = << >>

\* C7: a second run of reduce_vertex_count on the list left by
\* populate_vertex_neighbors and one run of reduce_vertex_count changes no
\* vertex's neighbor list.
C7_ReduceIdempotent ==
    pc = "boundary" => reduce_vertex_count(vertices) = vertices

\* C7 witness: the first run collapsed a vertex, and vertices with edges
\* remain.
C7_Witness ==
    /\ pc = "boundary"
    /\ vertices # Unreduced
    /\ \E v \in 1..Len(vertices) : Len(vertices[v].neighbors) >= 3

\* C8: for a raster without open cells graph construction gives an empty
\* vertex list without failing, and every strategy returns None.
C8_AllWallRaster ==
    (Decoded /\ OpenCells = {}) =>
        /\ pc # "panic"
        /\ vertices = << >>
        /\ \A k \in 1..Len(Solvers) : Returned(k) => results[k] = None

\* The predecessors of v in pm, v first, followed for at most n steps.
RECURSIVE ParentChain(_, _, _)
ParentChain(pm, v, n) ==
    IF v = 0 \/ n = 0 THEN << >> ELSE << v >> \o ParentChain(pm, pm[v], n - 1)

\* The chain of predecessors of v ends (on a vertex without parent) before
\* any vertex repeats.
ChainEnds(pm, v) ==
    LET chain == ParentChain(pm, v, Len(pm) + 1)
    IN  /\ Len(chain) <= Len(pm)
        /\ \A a, j \in 1..Len(chain) : chain[a] = chain[j] => a = j

\* The program runs to completion without waiting for anything.
FairSpec == Spec /\ WF_vars(Next)

\* C9: when reconstruct_path is called the chain of predecessors of
\* graph.end has no cycle, so reconstruct_path terminates, and so does every
\* search loop: each run ends, with every strategy having returned or
\* with from_png failing.
C9_NoParentCycleAndTermination ==
    /\ [](pc = "reconstruct" => ChainEnds(parent_map, end))
    /\ <>(pc \in {"done", "panic", "error"})

\* C9 witness: reconstruct_path is following a chain of several predecessors
\* that depth-first search left behind on a graph with a vertex of degree
\* three or more.
C9_Witness ==
    /\ pc = "reconstruct"
    /\ solver = DepthFirst
    /\ Len(path) >= 3
    /\ \E v \in 1..Len(vertices) : Len(vertices[v].neighbors) >= 3

\* C10: consecutive vertices of every returned path are joined by a stored
\* edge, so calculate_cost finds an edge for every pair.
C10_PathFollowsEdges ==
    \A k \in 1..Len(Solvers) : Found(k) => FollowsEdges(vertices, results[k].path)

\* C10 witness: a returned path with at least two edges.
C10_Witness ==
    \E k \in 1..Len(Solvers) : Found(k) /\ Len(results[k].path) >= 3 /\ start # end

===========================================================================
